---- MODULE Spec2Model ----
(***************************************************************************)
(* Circular-buffer Queue and Deque of the collections package.             *)
(*                                                                         *)
(* A container is a record [items, front, rear, size]; items is the Go     *)
(* slice, physical index i of the slice is position i+1 of the sequence,   *)
(* and 0 is the zero value of the element type.  Every method is an        *)
(* operator from a container to a result record                            *)
(*   [c: container after the call, val: returned value, err: error         *)
(*    returned, panic: the Go runtime panicked (index out of range),       *)
(*    rz: the logs of the resize() runs the call made, in order]           *)
(* and each action applies one method to the container held in the         *)
(* variables.                                                              *)
(*                                                                         *)
(* A store to items[rear] with rear = len(items) is a Go runtime panic:    *)
(* the store does not happen, the container keeps the state it had, and    *)
(* the run ends there (panicked).                                          *)
(*                                                                         *)
(* The alias methods of Deque (Enqueue, Dequeue, Push, Pop, PeekFront,     *)
(* PeekBack) and Queue.Peek only forward to the methods modelled here.     *)
(***************************************************************************)
EXTENDS Integers, Sequences, FiniteSets, TLC

VARIABLES kind,      \* "Queue" or "Deque": the type of the container
          items,     \* the backing slice
          front,     \* index of the front element
          rear,      \* index where the next rear element will be inserted
          size,      \* current number of elements
          panicked,  \* a call ended in a runtime panic
          nextVal,   \* the next fresh value handed to an insertion
          lastOp,    \* the last call: [name, arg]
          ret,       \* what the last call returned: [val, err]
          resized,   \* the resize() runs of the last call
          pc,        \* "run", or the phase of a scripted sequence of calls
          orig,      \* ToSlice() recorded when a scripted sequence started
          popped,    \* values returned by the pops of a scripted sequence
          law,       \* "none", or the access pattern a scripted run keeps to
          shuffles,  \* number of Rotate, Reverse and Set calls made so far
          other,     \* the second container once Clone() has run: [c, shared, role]
          ops        \* pushes and pops made since the last resize(), where counted

vars == <<kind, items, front, rear, size, panicked, nextVal, lastOp, ret,
          resized, pc, orig, popped, law, shuffles, other, ops>>

---------------------------------------------------------------------------
(* Bounds of the model *)

\* the insertions of a run insert the fresh values 1..MaxVal, in this order
MaxVal == 2
\* NewXWithCapacity(n) is called with n in MinCapArg..MaxCapArg
MaxCapArg == 5
\* FromSliceX is called with <<SliceBase+1, ..., SliceBase+n>>, n in 0..MaxSliceLen
MaxSliceLen == 4
SliceBase == 10
\* Rotate(n) is called with n in -MaxRot..MaxRot
MaxRot == 2
\* at most MaxShuffles calls of Rotate, Reverse and Set are made on one
\* container, not counting a Rotate(-n) that directly follows a Rotate(n)
MaxShuffles == 1
\* a scripted FIFO or LIFO run makes at most MaxLawN pushes
MaxLawN == 9
\* a linked list holds at most MaxNodes nodes
MaxNodes == 5

MinCapArg == 0 - 1
\* largest size a container grows to where resize() is costed
MaxSize == 17
\* the count of operations since the last resize() stops at this value
MaxOps == 16

---------------------------------------------------------------------------
(* Program constants *)

DequeInitialCapacity == 4
DequeShrinkFactor == 4
DequeGrowthFactor == 2
DefaultInitialCapacity == 4
ShrinkFactor == 4
GrowthFactor == 2

---------------------------------------------------------------------------
(* Go primitives *)

\* Go's % truncates toward zero: the result has the sign of the dividend
GoMod(a, b) == IF a >= 0 THEN a % b ELSE 0 - ((0 - a) % b)

\* make([]T, n): n zero values
Make(n) == [i \in 1..n |-> 0]

\* s[i] and s[i] = v for a physical (0-based) index i of a slice
At(s, i) == s[i + 1]
Put(s, i, v) == [s EXCEPT ![i + 1] = v]
InRange(s, i) == 0 <= i /\ i < Len(s)

\* copy(dst, src) with len(src) <= len(dst)
Copy(dst, src) == [i \in 1..Len(dst) |-> IF i <= Len(src) THEN src[i] ELSE dst[i]]

Container(it, f, r, n) == [items |-> it, front |-> f, rear |-> r, size |-> n]

\* the log of a resize() run: the logical order and front before and after it
ResizeLog(sliceBefore, frontBefore, capBefore, sliceAfter, frontAfter, capAfter) ==
    [before |-> sliceBefore, oldFront |-> frontBefore, oldCap |-> capBefore,
     after |-> sliceAfter, front |-> frontAfter, newCap |-> capAfter]

\* no resize() ran
NoResize == <<>>

Result(c, v, e, p, z) == [c |-> c, val |-> v, err |-> e, panic |-> p, rz |-> z]
Ok(c, v) == Result(c, v, FALSE, FALSE, NoResize)
Fail(c) == Result(c, 0, TRUE, FALSE, NoResize)

\* the input slice of FromSliceX
Input(n) == [i \in 1..n |-> SliceBase + i]

---------------------------------------------------------------------------
(* Deque *)

NewDeque == Container(Make(DequeInitialCapacity), 0, 0, 0)

NewDequeWithCapacity(capacity) ==
    LET cap == IF capacity < 1 THEN DequeInitialCapacity ELSE capacity
    IN  Container(Make(cap), 0, 0, 0)

\* mutant of FromSliceDeque: items is the slice itself, not a buffer of at
\* least the initial capacity that the slice is copied into
FromSliceDequeKeepsSlice(slice) ==
    Container(slice, 0, Len(slice), Len(slice))

FromSliceDeque(slice) ==
    LET cap == IF Len(slice) < DequeInitialCapacity
               THEN DequeInitialCapacity ELSE Len(slice)
    IN  Container(Copy(Make(cap), slice), 0, Len(slice), Len(slice))

\* mutant of DequeToSlice: the slice is read from physical index 0, not from front
DequeToSliceFromZero(dq) ==
    [i \in 1..dq.size |-> At(dq.items, GoMod(i - 1, Len(dq.items)))]

DequeToSlice(dq) ==
    [i \in 1..dq.size |->
        At(dq.items, GoMod(dq.front + (i - 1), Len(dq.items)))]

\* mutant of DequeResize: the elements are copied from physical index 0 on
DequeResizeNoWrap(dq) ==
    LET newCapacity == IF dq.size = Len(dq.items)
                       THEN Len(dq.items) * DequeGrowthFactor
                       ELSE Len(dq.items) \div DequeGrowthFactor
        newItems == [i \in 1..newCapacity |->
                       IF i - 1 < dq.size THEN At(dq.items, i - 1) ELSE 0]
    IN  Container(newItems, 0, dq.size, dq.size)

\* mutant of DequeResize: front is not reset to 0
DequeResizeKeepsFront(dq) ==
    LET newCapacity == IF dq.size = Len(dq.items)
                       THEN Len(dq.items) * DequeGrowthFactor
                       ELSE Len(dq.items) \div DequeGrowthFactor
        newItems == [i \in 1..newCapacity |->
                       IF i - 1 < dq.size
                       THEN At(dq.items, GoMod(dq.front + (i - 1), Len(dq.items)))
                       ELSE 0]
    IN  Container(newItems, dq.front, dq.size, dq.size)

\* mutant of DequeResize: a shrink divides by the shrink factor
DequeResizeShrinkFactor(dq) ==
    LET newCapacity == IF dq.size = Len(dq.items)
                       THEN Len(dq.items) * DequeGrowthFactor
                       ELSE Len(dq.items) \div DequeShrinkFactor
        newItems == [i \in 1..newCapacity |->
                       IF i - 1 < dq.size
                       THEN At(dq.items, GoMod(dq.front + (i - 1), Len(dq.items)))
                       ELSE 0]
    IN  Container(newItems, 0, dq.size, dq.size)

DequeResize(dq) ==
    LET newCapacity == IF dq.size = Len(dq.items)
                       THEN Len(dq.items) * DequeGrowthFactor
                       ELSE Len(dq.items) \div DequeGrowthFactor
        newItems == [i \in 1..newCapacity |->
                       IF i - 1 < dq.size
                       THEN At(dq.items, GoMod(dq.front + (i - 1), Len(dq.items)))
                       ELSE 0]
    IN  Container(newItems, 0, dq.size, dq.size)

DequeResizeLog(dq) ==
    LET d1 == DequeResize(dq)
    IN  <<ResizeLog(DequeToSlice(dq), dq.front, Len(dq.items),
                    DequeToSlice(d1), d1.front, Len(d1.items))>>

\* mutant of PushFront: the value is stored at front before front is moved
PushFrontStoresFirst(dq, value) ==
    LET full == dq.size = Len(dq.items)
        d1 == IF full THEN DequeResize(dq) ELSE dq
        f == GoMod(d1.front - 1 + Len(d1.items), Len(d1.items))
    IN  Result(Container(Put(d1.items, d1.front, value), f, d1.rear, d1.size + 1),
               0, FALSE, FALSE, IF full THEN DequeResizeLog(dq) ELSE NoResize)

PushFront(dq, value) ==
    LET full == dq.size = Len(dq.items)
        d1 == IF full THEN DequeResize(dq) ELSE dq
        f == GoMod(d1.front - 1 + Len(d1.items), Len(d1.items))
    IN  Result(Container(Put(d1.items, f, value), f, d1.rear, d1.size + 1),
               0, FALSE, FALSE, IF full THEN DequeResizeLog(dq) ELSE NoResize)

\* mutant of PushBack: the buffer does not grow when it is full
PushBackNoGrow(dq, value) ==
    IF ~InRange(dq.items, dq.rear)
    THEN Result(dq, 0, FALSE, TRUE, NoResize)
    ELSE Result(Container(Put(dq.items, dq.rear, value), dq.front,
                          GoMod(dq.rear + 1, Len(dq.items)), dq.size + 1),
                0, FALSE, FALSE, NoResize)

PushBack(dq, value) ==
    LET full == dq.size = Len(dq.items)
        d1 == IF full THEN DequeResize(dq) ELSE dq
        z == IF full THEN DequeResizeLog(dq) ELSE NoResize
    IN  IF ~InRange(d1.items, d1.rear)
        THEN Result(d1, 0, FALSE, TRUE, z)
        ELSE Result(Container(Put(d1.items, d1.rear, value), d1.front,
                              GoMod(d1.rear + 1, Len(d1.items)), d1.size + 1),
                    0, FALSE, FALSE, z)

\* mutant of DequeShrinks: a buffer of the initial capacity or less shrinks too
DequeShrinksBelowInitial(dq) ==
    /\ dq.size > 0
    /\ dq.size = Len(dq.items) \div DequeShrinkFactor

\* mutant of DequeShrinks: the deque shrinks when it is half full
DequeShrinksAtHalf(dq) ==
    /\ dq.size > 0
    /\ dq.size = Len(dq.items) \div DequeGrowthFactor
    /\ Len(dq.items) > DequeShrinkFactor

DequeShrinks(dq) ==
    /\ dq.size > 0
    /\ dq.size = Len(dq.items) \div DequeShrinkFactor
    /\ Len(dq.items) > DequeShrinkFactor

PopFront(dq) ==
    IF dq.size = 0 THEN Fail(dq)
    ELSE LET value == At(dq.items, dq.front)
             d1 == Container(Put(dq.items, dq.front, 0),
                             GoMod(dq.front + 1, Len(dq.items)),
                             dq.rear, dq.size - 1)
         IN  IF DequeShrinks(d1)
             THEN Result(DequeResize(d1), value, FALSE, FALSE, DequeResizeLog(d1))
             ELSE Ok(d1, value)

\* mutant of PopBack: rear is moved back before the deque is found empty
PopBackMovesRearFirst(dq) ==
    LET r == GoMod(dq.rear - 1 + Len(dq.items), Len(dq.items))
    IN  IF dq.size = 0 THEN Fail(Container(dq.items, dq.front, r, dq.size))
        ELSE LET value == At(dq.items, r)
                 d1 == Container(Put(dq.items, r, 0), dq.front, r, dq.size - 1)
             IN  IF DequeShrinks(d1)
                 THEN Result(DequeResize(d1), value, FALSE, FALSE, DequeResizeLog(d1))
                 ELSE Ok(d1, value)

PopBack(dq) ==
    IF dq.size = 0 THEN Fail(dq)
    ELSE LET r == GoMod(dq.rear - 1 + Len(dq.items), Len(dq.items))
             value == At(dq.items, r)
             d1 == Container(Put(dq.items, r, 0), dq.front, r, dq.size - 1)
         IN  IF DequeShrinks(d1)
             THEN Result(DequeResize(d1), value, FALSE, FALSE, DequeResizeLog(d1))
             ELSE Ok(d1, value)

\* mutant of Rotate: front is moved back without the wraparound
RotateNoWrap(dq, n) ==
    IF dq.size <= 1 THEN Ok(dq, 0)
    ELSE LET m == GoMod(n, dq.size)
             k == IF m < 0 THEN m + dq.size ELSE m
         IN  Ok(Container(dq.items, dq.front - k, dq.rear, dq.size), 0)

Rotate(dq, n) ==
    IF dq.size <= 1 THEN Ok(dq, 0)
    ELSE LET m == GoMod(n, dq.size)
             k == IF m < 0 THEN m + dq.size ELSE m
         IN  Ok(Container(dq.items,
                          GoMod(dq.front - k + Len(dq.items), Len(dq.items)),
                          dq.rear, dq.size), 0)

RECURSIVE DequeClearLoop(_, _, _)
DequeClearLoop(its, dq, i) ==
    IF i >= dq.size THEN its
    ELSE DequeClearLoop(Put(its, GoMod(dq.front + i, Len(dq.items)), 0), dq, i + 1)

DequeClear(dq) == Ok(Container(DequeClearLoop(dq.items, dq, 0), 0, 0, 0), 0)

\* mutant of DequeSet: index is taken as a physical index, front is not added
DequeSetPhysical(dq, index, value) ==
    IF index < 0 \/ index >= dq.size THEN Fail(dq)
    ELSE Ok(Container(Put(dq.items, index, value), dq.front, dq.rear, dq.size), 0)

DequeSet(dq, index, value) ==
    IF index < 0 \/ index >= dq.size THEN Fail(dq)
    ELSE Ok(Container(Put(dq.items, GoMod(dq.front + index, Len(dq.items)), value),
                      dq.front, dq.rear, dq.size), 0)

\* mutant of DequeReverseLoop: the swapped indexes are counted from physical
\* index 0, not from front
RECURSIVE DequeReverseLoopPhysical(_, _, _)
DequeReverseLoopPhysical(its, dq, i) ==
    IF i >= dq.size \div DequeGrowthFactor THEN its
    ELSE LET frontIndex == GoMod(i, Len(dq.items))
             backIndex == GoMod(dq.size - 1 - i, Len(dq.items))
             swapped == Put(Put(its, frontIndex, At(its, backIndex)),
                            backIndex, At(its, frontIndex))
         IN  DequeReverseLoopPhysical(swapped, dq, i + 1)

RECURSIVE DequeReverseLoop(_, _, _)
DequeReverseLoop(its, dq, i) ==
    IF i >= dq.size \div DequeGrowthFactor THEN its
    ELSE LET frontIndex == GoMod(dq.front + i, Len(dq.items))
             backIndex == GoMod(dq.front + dq.size - 1 - i, Len(dq.items))
             swapped == Put(Put(its, frontIndex, At(its, backIndex)),
                            backIndex, At(its, frontIndex))
         IN  DequeReverseLoop(swapped, dq, i + 1)

DequeReverse(dq) ==
    IF dq.size <= 1 THEN Ok(dq, 0)
    ELSE Ok(Container(DequeReverseLoop(dq.items, dq, 0), dq.front, dq.rear, dq.size), 0)

DequeFront(dq) ==
    IF dq.size = 0 THEN Fail(dq) ELSE Ok(dq, At(dq.items, dq.front))

DequeBack(dq) ==
    IF dq.size = 0 THEN Fail(dq)
    ELSE LET backIndex == GoMod(dq.rear - 1 + Len(dq.items), Len(dq.items))
         IN  Ok(dq, At(dq.items, backIndex))

DequeGet(dq, index) ==
    IF index < 0 \/ index >= dq.size THEN Fail(dq)
    ELSE Ok(dq, At(dq.items, GoMod(dq.front + index, Len(dq.items))))

\* for i := 0; i < dq.size; i++ { clone.PushBack(dq.items[index]) }
RECURSIVE DequeCloneLoop(_, _, _)
DequeCloneLoop(r, dq, i) ==
    IF i >= dq.size \/ r.panic THEN r
    ELSE LET index == GoMod(dq.front + i, Len(dq.items))
             p == PushBack(r.c, At(dq.items, index))
         IN  DequeCloneLoop(Result(p.c, 0, FALSE, p.panic, r.rz \o p.rz), dq, i + 1)

\* mutant of DequeClone: the clone is given the array of the original
DequeCloneShallow(dq) == [c |-> dq, shared |-> TRUE, panic |-> FALSE]

\* Clone(): the clone, whether it holds the array of dq (it never does,
\* NewDequeWithCapacity makes a new one), and whether a PushBack panicked
DequeClone(dq) ==
    LET clone == NewDequeWithCapacity(Len(dq.items))
        r == DequeCloneLoop(Ok(clone, 0), dq, 0)
    IN  [c |-> r.c, shared |-> FALSE, panic |-> r.panic]

\* the alias methods of Deque
PeekFront(dq) == DequeFront(dq)
PeekBack(dq) == DequeBack(dq)
DequeEnqueue(dq, value) == PushBack(dq, value)
DequeDequeue(dq) == PopFront(dq)
DequePush(dq, value) == PushBack(dq, value)
\* mutant of DequePop: Pop forwards to PopFront
DequePopFromFront(dq) == PopFront(dq)
DequePop(dq) == PopBack(dq)

---------------------------------------------------------------------------
(* Queue *)

NewQueue == Container(Make(DefaultInitialCapacity), 0, 0, 0)

NewQueueWithCapacity(capacity) ==
    LET cap == IF capacity < 1 THEN 4 ELSE capacity
    IN  Container(Make(cap), 0, 0, 0)

FromSliceQueue(slice) ==
    LET cap == IF Len(slice) < DefaultInitialCapacity
               THEN DefaultInitialCapacity ELSE Len(slice)
    IN  Container(Copy(Make(cap), slice), 0, Len(slice), Len(slice))

QueueToSlice(q) ==
    [i \in 1..q.size |->
        At(q.items, GoMod(q.front + (i - 1), Len(q.items)))]

\* mutant of QueueResize: the elements are copied from physical index 0 on
QueueResizeNoWrap(q) ==
    LET newCapacity == IF q.size = Len(q.items)
                       THEN Len(q.items) * GrowthFactor
                       ELSE Len(q.items) \div GrowthFactor
        newItems == [i \in 1..newCapacity |->
                       IF i - 1 < q.size THEN At(q.items, i - 1) ELSE 0]
    IN  Container(newItems, 0, q.size, q.size)

QueueResize(q) ==
    LET newCapacity == IF q.size = Len(q.items)
                       THEN Len(q.items) * GrowthFactor
                       ELSE Len(q.items) \div GrowthFactor
        newItems == [i \in 1..newCapacity |->
                       IF i - 1 < q.size
                       THEN At(q.items, GoMod(q.front + (i - 1), Len(q.items)))
                       ELSE 0]
    IN  Container(newItems, 0, q.size, q.size)

QueueResizeLog(q) ==
    LET q1 == QueueResize(q)
    IN  <<ResizeLog(QueueToSlice(q), q.front, Len(q.items),
                    QueueToSlice(q1), q1.front, Len(q1.items))>>

Enqueue(q, value) ==
    LET full == q.size = Len(q.items)
        q1 == IF full THEN QueueResize(q) ELSE q
        z == IF full THEN QueueResizeLog(q) ELSE NoResize
    IN  IF ~InRange(q1.items, q1.rear)
        THEN Result(q1, 0, FALSE, TRUE, z)
        ELSE Result(Container(Put(q1.items, q1.rear, value), q1.front,
                              GoMod(q1.rear + 1, Len(q1.items)), q1.size + 1),
                    0, FALSE, FALSE, z)

\* mutant of QueueShrinks: the queue shrinks at a quarter full or less
QueueShrinksAtOrBelow(q) ==
    /\ q.size <= Len(q.items) \div ShrinkFactor
    /\ Len(q.items) > ShrinkFactor

QueueShrinks(q) ==
    /\ q.size > 0
    /\ q.size = Len(q.items) \div ShrinkFactor
    /\ Len(q.items) > ShrinkFactor

\* mutant of Dequeue: front is advanced before the value is read
DequeueAdvancesFirst(q) ==
    IF q.size = 0 THEN Fail(q)
    ELSE LET f == GoMod(q.front + 1, Len(q.items))
             value == At(q.items, f)
             q1 == Container(Put(q.items, f, 0), f, q.rear, q.size - 1)
         IN  IF QueueShrinks(q1)
             THEN Result(QueueResize(q1), value, FALSE, FALSE, QueueResizeLog(q1))
             ELSE Ok(q1, value)

Dequeue(q) ==
    IF q.size = 0 THEN Fail(q)
    ELSE LET value == At(q.items, q.front)
             q1 == Container(Put(q.items, q.front, 0),
                             GoMod(q.front + 1, Len(q.items)),
                             q.rear, q.size - 1)
         IN  IF QueueShrinks(q1)
             THEN Result(QueueResize(q1), value, FALSE, FALSE, QueueResizeLog(q1))
             ELSE Ok(q1, value)

RECURSIVE QueueClearLoop(_, _, _)
QueueClearLoop(its, q, i) ==
    IF i >= q.size THEN its
    ELSE QueueClearLoop(Put(its, GoMod(q.front + i, Len(q.items)), 0), q, i + 1)

QueueClear(q) == Ok(Container(QueueClearLoop(q.items, q, 0), 0, 0, 0), 0)

\* the slice reversed by the i, j loop of Queue.Reverse
ReverseSlice(slice) == [i \in 1..Len(slice) |-> slice[Len(slice) + 1 - i]]

\* for _, value := range slice { q.Enqueue(value) }, the loop of Queue.Reverse
\* and of Queue.MultiEnqueue; r is the result so far, and a panic ends the loop
RECURSIVE QueueEnqueueAll(_, _, _)
QueueEnqueueAll(r, slice, i) ==
    IF i > Len(slice) \/ r.panic THEN r
    ELSE LET e == Enqueue(r.c, slice[i])
         IN  QueueEnqueueAll(Result(e.c, 0, FALSE, e.panic, r.rz \o e.rz),
                             slice, i + 1)

QueueReverse(q) ==
    IF q.size <= 1 THEN Ok(q, 0)
    ELSE QueueEnqueueAll(QueueClear(q), ReverseSlice(QueueToSlice(q)), 1)

MultiEnqueue(q, values) == QueueEnqueueAll(Ok(q, 0), values, 1)

\* the loop of Queue.MultiDequeue; r.val collects the values dequeued so far
RECURSIVE MultiDequeueLoop(_, _, _)
MultiDequeueLoop(r, n, i) ==
    IF i >= n THEN r
    ELSE LET d == Dequeue(r.c)
         IN  MultiDequeueLoop(Result(d.c, Append(r.val, d.val), FALSE, FALSE,
                                     r.rz \o d.rz),
                              n, i + 1)

\* mutant of MultiDequeue: the n elements are taken in one step, front is
\* advanced by n and the shrink test of Dequeue is not made
MultiDequeueInOneStep(q, n) ==
    IF n < 0 \/ n > q.size THEN Result(q, <<>>, TRUE, FALSE, NoResize)
    ELSE IF n = 0 THEN Ok(q, <<>>)
    ELSE Ok(Container([i \in 1..Len(q.items) |->
                          IF GoMod(i - 1 - q.front + Len(q.items), Len(q.items)) < n
                          THEN 0 ELSE q.items[i]],
                      GoMod(q.front + n, Len(q.items)), q.rear, q.size - n),
            [i \in 1..n |-> At(q.items, GoMod(q.front + (i - 1), Len(q.items)))])

MultiDequeue(q, n) ==
    IF n < 0 \/ n > q.size THEN Result(q, <<>>, TRUE, FALSE, NoResize)
    ELSE IF n = 0 THEN Ok(q, <<>>)
    ELSE MultiDequeueLoop(Ok(q, <<>>), n, 0)

\* mutant of DrainTo: the queue is cleared before its elements are copied
DrainToClearsFirst(q) == Ok(QueueClear(q).c, QueueToSlice(QueueClear(q).c))

DrainTo(q) == Ok(QueueClear(q).c, QueueToSlice(q))

QueueFront(q) ==
    IF q.size = 0 THEN Fail(q) ELSE Ok(q, At(q.items, q.front))

QueueRear(q) ==
    IF q.size = 0 THEN Fail(q)
    ELSE LET rearIndex == GoMod(q.rear - 1 + Len(q.items), Len(q.items))
         IN  Ok(q, At(q.items, rearIndex))

QueuePeek(q) == QueueFront(q)

\* mutant of QueuePeekN: the elements are read from physical index 0 on
QueuePeekNFromZero(q, n) ==
    IF n < 0 \/ n > q.size THEN Result(q, <<>>, TRUE, FALSE, NoResize)
    ELSE IF n = 0 THEN Ok(q, <<>>)
    ELSE Ok(q, [i \in 1..n |-> At(q.items, GoMod(i - 1, Len(q.items)))])

QueuePeekN(q, n) ==
    IF n < 0 \/ n > q.size THEN Result(q, <<>>, TRUE, FALSE, NoResize)
    ELSE IF n = 0 THEN Ok(q, <<>>)
    ELSE Ok(q, [i \in 1..n |->
                  At(q.items, GoMod(q.front + (i - 1), Len(q.items)))])

\* for i := 0; i < q.size; i++ { clone.Enqueue(q.items[index]) }
RECURSIVE QueueCloneLoop(_, _, _)
QueueCloneLoop(r, q, i) ==
    IF i >= q.size \/ r.panic THEN r
    ELSE LET index == GoMod(q.front + i, Len(q.items))
             e == Enqueue(r.c, At(q.items, index))
         IN  QueueCloneLoop(Result(e.c, 0, FALSE, e.panic, r.rz \o e.rz), q, i + 1)

\* Clone(): the clone, whether it holds the array of q (it never does,
\* NewQueueWithCapacity makes a new one), and whether an Enqueue panicked
QueueClone(q) ==
    LET clone == NewQueueWithCapacity(Len(q.items))
        r == QueueCloneLoop(Ok(clone, 0), q, 0)
    IN  [c |-> r.c, shared |-> FALSE, panic |-> r.panic]

---------------------------------------------------------------------------
(* Stack.  A stack is the record of a container whose items is the array   *)
(* behind s.items (its length is cap(s.items)) and whose size is           *)
(* len(s.items); front and rear are not used and stay 0.  Re-slicing       *)
(* (s.items[:index]) changes the length only: the array keeps its values.  *)

StackOf(array, n) == Container(array, 0, 0, n)

\* s.items, the first len(s.items) values of the array
StackItems(s) == SubSeq(s.items, 1, s.size)

NewStack == StackOf(Make(0), 0)

NewStackWithCapacity(capacity) == StackOf(Make(capacity), 0)

FromSliceStack(slice) == StackOf(Copy(Make(Len(slice)), slice), Len(slice))

StackToSlice(s) == Copy(Make(s.size), StackItems(s))

\* the capacities append may give a slice that has to grow to `need`
\* elements: the Go runtime chooses, at least `need`, twice the old
\* capacity for a small slice
GrownCapacities(s, need) ==
    {need, IF 2 * Len(s.items) > need THEN 2 * Len(s.items) ELSE need}

\* append(s.items, values...) when the runtime gives a grown array newCap slots
StackAppend(s, values, newCap) ==
    LET need == s.size + Len(values)
        array == IF need <= Len(s.items) THEN s.items
                 ELSE Copy(Make(newCap), StackItems(s))
    IN  StackOf([i \in 1..Len(array) |->
                    IF s.size < i /\ i <= need THEN values[i - s.size]
                    ELSE array[i]],
                need)

StackPush(s, value, newCap) == Ok(StackAppend(s, <<value>>, newCap), 0)

StackPop(s) ==
    IF s.size = 0 THEN Fail(s)
    ELSE LET index == s.size - 1
         IN  Ok(StackOf(s.items, index), At(s.items, index))

StackPeek(s) ==
    IF s.size = 0 THEN Fail(s) ELSE Ok(s, At(s.items, s.size - 1))

StackClear(s) == Ok(StackOf(s.items, 0), 0)

\* mutant of MultiPush: the values are appended last to first
MultiPushLastFirst(s, values, newCap) ==
    Ok(StackAppend(s, ReverseSlice(values), newCap), 0)

MultiPush(s, values, newCap) == Ok(StackAppend(s, values, newCap), 0)

\* mutant of MultiPop: with n > len(s.items) the stack is emptied before
\* the error is returned
MultiPopEmptiesOnError(s, n) ==
    IF n < 0 THEN Result(s, <<>>, TRUE, FALSE, NoResize)
    ELSE IF n > s.size THEN Result(StackOf(s.items, 0), <<>>, TRUE, FALSE, NoResize)
    ELSE IF n = 0 THEN Ok(s, <<>>)
    ELSE LET start == s.size - n
         IN  Ok(StackOf(s.items, start),
                [i \in 1..n |-> At(s.items, start + n - 1 - (i - 1))])

MultiPop(s, n) ==
    IF n < 0 \/ n > s.size THEN Result(s, <<>>, TRUE, FALSE, NoResize)
    ELSE IF n = 0 THEN Ok(s, <<>>)
    ELSE LET start == s.size - n
         IN  Ok(StackOf(s.items, start),
                [i \in 1..n |-> At(s.items, start + n - 1 - (i - 1))])

StackPeekN(s, n) ==
    IF n < 0 \/ n > s.size THEN Result(s, <<>>, TRUE, FALSE, NoResize)
    ELSE IF n = 0 THEN Ok(s, <<>>)
    ELSE LET start == s.size - n
         IN  Ok(s, [i \in 1..n |-> At(s.items, start + n - 1 - (i - 1))])

---------------------------------------------------------------------------
(* LinkedList.  The nodes live in a heap, the sequence items: the pointer  *)
(* to a node is its position in the heap and nil is 0.  front is head,     *)
(* rear is tail.  The position of a node is only its name: between calls   *)
(* the nodes are renamed in the order head, and then tail, reaches them,   *)
(* and a node that nothing points to any more, which the garbage collector *)
(* frees, is dropped.                                                      *)

NilNode == 0

Node(value, next) == [Value |-> value, Next |-> next]

LinkedList(heap, head, tail, n) == Container(heap, head, tail, n)

NewLinkedList == LinkedList(<<>>, NilNode, NilNode, 0)

\* a nil pointer dereference: the call panics and the list is as it was
NilDereference(ll) == Result(ll, 0, FALSE, TRUE, NoResize)

\* fmt.Sprintf("%v", n) of an int: the decimal digits, after a minus sign
\* when n is negative
RECURSIVE Digits(_)
Digits(n) ==
    LET digit == <<"0", "1", "2", "3", "4", "5", "6", "7", "8", "9">>[(n % 10) + 1]
    IN  IF n < 10 THEN <<digit>> ELSE Append(Digits(n \div 10), digit)

Sprintf(n) == IF n < 0 THEN <<"-">> \o Digits(0 - n) ELSE Digits(n)

isEqual(a, b) == Sprintf(a) = Sprintf(b)

ListAppend(ll, value) ==
    LET newNode == Len(ll.items) + 1
        heap == Append(ll.items, Node(value, NilNode))
    IN  IF ll.front = NilNode
        THEN Ok(LinkedList(heap, newNode, newNode, ll.size + 1), 0)
        ELSE IF ll.rear = NilNode THEN NilDereference(ll)
        ELSE Ok(LinkedList([heap EXCEPT ![ll.rear].Next = newNode],
                           ll.front, newNode, ll.size + 1), 0)

ListPrepend(ll, value) ==
    LET newNode == Len(ll.items) + 1
        heap == Append(ll.items, Node(value, ll.front))
    IN  Ok(LinkedList(heap, newNode,
                      IF ll.rear = NilNode THEN newNode ELSE ll.rear,
                      ll.size + 1), 0)

\* for _, v := range slice { ll.Append(v) }
RECURSIVE ListAppendAll(_, _, _)
ListAppendAll(r, slice, i) ==
    IF i > Len(slice) \/ r.panic THEN r
    ELSE ListAppendAll(ListAppend(r.c, slice[i]), slice, i + 1)

FromSlice(slice) == ListAppendAll(Ok(NewLinkedList, 0), slice, 1).c

\* current after `steps` runs of current = current.Next; -1 when one of
\* them dereferences nil
RECURSIVE Walk(_, _, _)
Walk(heap, current, steps) ==
    IF steps <= 0 THEN current
    ELSE IF current = NilNode THEN 0 - 1
    ELSE Walk(heap, heap[current].Next, steps - 1)

\* mutant of ListInsert: the walk goes to position index, not index-1
ListInsertAfterIndex(ll, index, value) ==
    IF index < 0 \/ index > ll.size THEN Fail(ll)
    ELSE IF index = 0 THEN ListPrepend(ll, value)
    ELSE IF index = ll.size THEN ListAppend(ll, value)
    ELSE LET newNode == Len(ll.items) + 1
             current == Walk(ll.items, ll.front, index)
         IN  IF current <= NilNode THEN NilDereference(ll)
             ELSE LET heap == Append(ll.items,
                                     Node(value, ll.items[current].Next))
                  IN  Ok(LinkedList([heap EXCEPT ![current].Next = newNode],
                                    ll.front, ll.rear, ll.size + 1), 0)

ListInsert(ll, index, value) ==
    IF index < 0 \/ index > ll.size THEN Fail(ll)
    ELSE IF index = 0 THEN ListPrepend(ll, value)
    ELSE IF index = ll.size THEN ListAppend(ll, value)
    ELSE LET newNode == Len(ll.items) + 1
             current == Walk(ll.items, ll.front, index - 1)
         IN  IF current <= NilNode THEN NilDereference(ll)
             ELSE LET heap == Append(ll.items,
                                     Node(value, ll.items[current].Next))
                  IN  Ok(LinkedList([heap EXCEPT ![current].Next = newNode],
                                    ll.front, ll.rear, ll.size + 1), 0)

\* current.Next = nodeToDelete.Next, the tail update and size--
Unlink(ll, current) ==
    LET nodeToDelete == ll.items[current].Next
    IN  IF nodeToDelete = NilNode THEN NilDereference(ll)
        ELSE Result(LinkedList([ll.items EXCEPT
                                   ![current].Next = ll.items[nodeToDelete].Next],
                               ll.front,
                               IF nodeToDelete = ll.rear THEN current ELSE ll.rear,
                               ll.size - 1),
                    0, FALSE, FALSE, NoResize)

\* ll.head = ll.head.Next, with tail set to nil when the list is now empty
DropHead(ll) ==
    LET head == ll.items[ll.front].Next
    IN  LinkedList(ll.items, head,
                   IF head = NilNode THEN NilNode ELSE ll.rear, ll.size - 1)

\* for current.Next != nil { ... }, the loop of Delete
RECURSIVE ListDeleteLoop(_, _, _)
ListDeleteLoop(ll, current, value) ==
    LET next == ll.items[current].Next
    IN  IF next = NilNode THEN Ok(ll, FALSE)
        ELSE IF isEqual(ll.items[next].Value, value)
        THEN Ok(Unlink(ll, current).c, TRUE)
        ELSE ListDeleteLoop(ll, next, value)

\* mutant of ListDelete: the head node is not compared with the value
ListDeleteAfterHead(ll, value) ==
    IF ll.front = NilNode THEN Ok(ll, FALSE)
    ELSE ListDeleteLoop(ll, ll.front, value)

ListDelete(ll, value) ==
    IF ll.front = NilNode THEN Ok(ll, FALSE)
    ELSE IF isEqual(ll.items[ll.front].Value, value)
    THEN Ok(DropHead(ll), TRUE)
    ELSE ListDeleteLoop(ll, ll.front, value)

ListDeleteAt(ll, index) ==
    IF index < 0 \/ index >= ll.size THEN Fail(ll)
    ELSE IF ll.front = NilNode THEN NilDereference(ll)
    ELSE IF index = 0 THEN Ok(DropHead(ll), 0)
    ELSE LET current == Walk(ll.items, ll.front, index - 1)
         IN  IF current <= NilNode THEN NilDereference(ll)
             ELSE Unlink(ll, current)

ListClear(ll) == Ok(LinkedList(ll.items, NilNode, NilNode, 0), 0)

\* for current != nil { result = append(result, current.Value) ... }
RECURSIVE ListToSliceLoop(_, _)
ListToSliceLoop(heap, current) ==
    IF current = NilNode THEN <<>>
    ELSE <<heap[current].Value>> \o ListToSliceLoop(heap, heap[current].Next)

ListToSlice(ll) == ListToSliceLoop(ll.items, ll.front)

\* for current != nil { next := current.Next; current.Next = prev; ... }:
\* the heap and prev when the loop of Reverse ends
RECURSIVE ListReverseLoop(_, _, _)
ListReverseLoop(heap, prev, current) ==
    IF current = NilNode THEN [heap |-> heap, prev |-> prev]
    ELSE ListReverseLoop([heap EXCEPT ![current].Next = prev], current,
                         heap[current].Next)

\* mutant of ListReverse: tail is left on the node that was last
ListReverseKeepsTail(ll) ==
    IF ll.front = NilNode \/ ll.items[ll.front].Next = NilNode THEN Ok(ll, 0)
    ELSE LET r == ListReverseLoop(ll.items, NilNode, ll.front)
         IN  Ok(LinkedList(r.heap, r.prev, ll.rear, ll.size), 0)

ListReverse(ll) ==
    IF ll.front = NilNode \/ ll.items[ll.front].Next = NilNode THEN Ok(ll, 0)
    ELSE LET r == ListReverseLoop(ll.items, NilNode, ll.front)
         IN  Ok(LinkedList(r.heap, r.prev, ll.front, ll.size), 0)

ListHead(ll) ==
    IF ll.front = NilNode THEN Fail(ll) ELSE Ok(ll, ll.items[ll.front].Value)

ListTail(ll) ==
    IF ll.rear = NilNode THEN Fail(ll) ELSE Ok(ll, ll.items[ll.rear].Value)

\* the nodes reached from `current` by following Next, in that order,
\* after the nodes of seen
RECURSIVE Reached(_, _, _)
Reached(heap, current, seen) ==
    IF current = NilNode \/ \E k \in 1..Len(seen) : seen[k] = current THEN seen
    ELSE Reached(heap, heap[current].Next, Append(seen, current))

\* the same list with its nodes renamed in the order head and then tail
\* reach them, without the nodes neither of them leads to
Rename(ll) ==
    LET kept == Reached(ll.items, ll.rear, Reached(ll.items, ll.front, <<>>))
        moved(n) == IF n = NilNode THEN NilNode
                    ELSE CHOOSE k \in 1..Len(kept) : kept[k] = n
    IN  LinkedList([k \in 1..Len(kept) |->
                       Node(ll.items[kept[k]].Value, moved(ll.items[kept[k]].Next))],
                   moved(ll.front), moved(ll.rear), ll.size)

\* the result of a call on a list, its nodes renamed
Renamed(r) == [r EXCEPT !.c = Rename(r.c)]

---------------------------------------------------------------------------
(* Size, IsEmpty, Contains and String, which Queue and Deque define with   *)
(* the same statements; String differs in the name it prints               *)

Size(c) == c.size

IsEmpty(c) == c.size = 0

\* for i := 0; i < size; i++ { if isEqual(items[index], value) { return true } }
RECURSIVE ContainsLoop(_, _, _)
ContainsLoop(c, value, i) ==
    IF i >= c.size THEN FALSE
    ELSE IF isEqual(At(c.items, GoMod(c.front + i, Len(c.items))), value) THEN TRUE
    ELSE ContainsLoop(c, value, i + 1)

Contains(c, value) == ContainsLoop(c, value, 0)

\* what the loop of String writes from element i on
RECURSIVE StringLoop(_, _)
StringLoop(c, i) ==
    IF i >= c.size THEN <<>>
    ELSE (IF i > 0 THEN <<", ">> ELSE <<>>)
         \o Sprintf(At(c.items, GoMod(c.front + i, Len(c.items))))
         \o StringLoop(c, i + 1)

\* String() of a container of type name, "Queue" or "Deque": the text as
\* the sequence of the pieces written
String(c, name) ==
    IF c.size = 0 THEN <<name, "[]">>
    ELSE <<name, "[">> \o StringLoop(c, 0)
         \o <<"] (front -> ", IF name = "Queue" THEN "rear" ELSE "back", ")">>

---------------------------------------------------------------------------
(* The container held in the variables, and the calls made on it *)

Self == Container(items, front, rear, size)

Capacity(c) == Len(c.items)

\* ToSlice() of a container of the kind held in the variables
ToSlice(c) ==
    CASE kind = "Queue" -> QueueToSlice(c)
      [] kind = "Stack" -> StackToSlice(c)
      [] kind = "LinkedList" -> ListToSlice(c)
      [] OTHER -> DequeToSlice(c)

NoScript == [slice |-> <<>>, size |-> 0]

\* Clone() has not run: there is one container only
NoOther == [c |-> Container(<<>>, 0, 0, 0), shared |-> FALSE, role |-> "none"]

\* the array a call that ran resize() leaves behind: the pops zero the slot
\* they read before they shrink, the insertions grow before they write
Abandoned(name, c) ==
    CASE name \in {"PopFront", "Dequeue"} -> Put(c.items, c.front, 0)
      [] name \in {"PopBack", "Pop"} ->
            Put(c.items, GoMod(c.rear - 1 + Len(c.items), Len(c.items)), 0)
      [] OTHER -> c.items

\* the second container after a call on the first gave result r: it sees
\* the stores of the call when the two hold the same array, until the call
\* moves the first one to a new array
Beside(name, r) ==
    IF ~other.shared THEN other
    ELSE IF r.rz = NoResize THEN [other EXCEPT !.c.items = r.c.items]
    ELSE [other EXCEPT !.shared = FALSE, !.c.items = Abandoned(name, Self)]

\* the state after constructor `name` returned container c
Construct(k, name, arg, c) ==
    /\ kind = k
    /\ items = c.items
    /\ front = c.front
    /\ rear = c.rear
    /\ size = c.size
    /\ panicked = FALSE
    /\ nextVal = 1
    /\ lastOp = [name |-> name, arg |-> arg]
    /\ ret = [val |-> 0, err |-> FALSE]
    /\ resized = NoResize
    /\ shuffles = 0
    /\ orig = NoScript
    /\ popped = <<>>
    /\ other = NoOther

Constructed ==
    \/ Construct("Deque", "NewDeque", 0, NewDeque)
    \/ \E n \in MinCapArg..MaxCapArg :
          Construct("Deque", "NewDequeWithCapacity", n, NewDequeWithCapacity(n))
    \/ \E n \in 0..MaxSliceLen :
          Construct("Deque", "FromSliceDeque", n, FromSliceDeque(Input(n)))
    \/ Construct("Queue", "NewQueue", 0, NewQueue)
    \/ \E n \in MinCapArg..MaxCapArg :
          Construct("Queue", "NewQueueWithCapacity", n, NewQueueWithCapacity(n))
    \/ \E n \in 0..MaxSliceLen :
          Construct("Queue", "FromSliceQueue", n, FromSliceQueue(Input(n)))

\* value of ops where the operations are not counted
NotCounting == 0 - 1

Init ==
    /\ Constructed
    /\ pc = "run"
    /\ law = "none"
    /\ ops = NotCounting

\* ops after a call that gave result r: a call that ran resize() starts the
\* count again, a call that returned an error is not an operation made
Counted(r) ==
    IF ops = NotCounting \/ r.err THEN ops
    ELSE IF r.rz # NoResize THEN 0
    ELSE IF ops < MaxOps THEN ops + 1 ELSE ops

\* the variables after a call `name(arg)` that gave result r
Call(name, arg, r) ==
    /\ items' = r.c.items
    /\ front' = r.c.front
    /\ rear' = r.c.rear
    /\ size' = r.c.size
    /\ panicked' = r.panic
    /\ lastOp' = [name |-> name, arg |-> arg]
    /\ ret' = [val |-> r.val, err |-> r.err]
    /\ resized' = r.rz
    /\ other' = Beside(name, r)
    /\ ops' = Counted(r)
    /\ UNCHANGED kind

\* a call may be made on a container of kind k: no call is under way in a
\* drain, and the program has not panicked
Callable(k) ==
    /\ kind = k
    /\ ~panicked
    /\ pc \in {"run", "rot", "back", "drained", "caller"}
    /\ UNCHANGED law

\* a call that belongs to no scripted sequence
Unscripted(k) ==
    /\ Callable(k)
    /\ pc' = "run"
    /\ orig' = NoScript
    /\ popped' = <<>>

Plain(k) == Unscripted(k) /\ UNCHANGED shuffles

Shuffle(k) ==
    /\ Unscripted(k)
    /\ shuffles < MaxShuffles
    /\ shuffles' = shuffles + 1

Fresh == nextVal <= MaxVal

DoPushFront ==
    /\ Plain("Deque") /\ Fresh
    /\ Call("PushFront", nextVal, PushFront(Self, nextVal))
    /\ nextVal' = nextVal + 1

DoPushBack ==
    /\ Plain("Deque") /\ Fresh
    /\ Call("PushBack", nextVal, PushBack(Self, nextVal))
    /\ nextVal' = nextVal + 1

DoPopFront ==
    /\ Plain("Deque")
    /\ Call("PopFront", 0, PopFront(Self))
    /\ UNCHANGED nextVal

DoPopBack ==
    /\ Plain("Deque")
    /\ Call("PopBack", 0, PopBack(Self))
    /\ UNCHANGED nextVal

\* Rotate(n); the logical order before it is kept in orig
DoRotate ==
    /\ Callable("Deque")
    /\ shuffles < MaxShuffles
    /\ shuffles' = shuffles + 1
    /\ \E n \in (0 - MaxRot)..MaxRot : Call("Rotate", n, Rotate(Self, n))
    /\ pc' = "rot"
    /\ orig' = [slice |-> DequeToSlice(Self), size |-> size]
    /\ UNCHANGED <<nextVal, popped>>

\* Rotate(-n) directly after Rotate(n)
DoRotateBack ==
    /\ Callable("Deque")
    /\ pc = "rot"
    /\ Call("Rotate", 0 - lastOp.arg, Rotate(Self, 0 - lastOp.arg))
    /\ pc' = "back"
    /\ UNCHANGED <<nextVal, popped, orig, shuffles>>

DoDequeClear ==
    /\ Plain("Deque")
    /\ Call("Clear", 0, DequeClear(Self))
    /\ UNCHANGED nextVal

DoDequeSet ==
    /\ Shuffle("Deque") /\ Fresh
    /\ \E i \in (0 - 1)..size : Call("Set", i, DequeSet(Self, i, nextVal))
    /\ nextVal' = nextVal + 1

DoDequeReverse ==
    /\ Shuffle("Deque")
    /\ Call("Reverse", 0, DequeReverse(Self))
    /\ UNCHANGED nextVal

DoEnqueue ==
    /\ Plain("Queue") /\ Fresh
    /\ Call("Enqueue", nextVal, Enqueue(Self, nextVal))
    /\ nextVal' = nextVal + 1

DoDequeue ==
    /\ Plain("Queue")
    /\ Call("Dequeue", 0, Dequeue(Self))
    /\ UNCHANGED nextVal

DoQueueClear ==
    /\ Plain("Queue")
    /\ Call("Clear", 0, QueueClear(Self))
    /\ UNCHANGED nextVal

DoQueueReverse ==
    /\ Shuffle("Queue")
    /\ Call("Reverse", 0, QueueReverse(Self))
    /\ UNCHANGED nextVal

\* MultiEnqueue of the next k fresh values
DoMultiEnqueue ==
    /\ Plain("Queue")
    /\ \E k \in 0..(MaxVal + 1 - nextVal) :
          LET values == [i \in 1..k |-> nextVal + i - 1]
          IN  /\ Call("MultiEnqueue", values, MultiEnqueue(Self, values))
              /\ nextVal' = nextVal + k

DoMultiDequeue ==
    /\ Plain("Queue")
    /\ \E n \in (0 - 1)..(size + 1) : Call("MultiDequeue", n, MultiDequeue(Self, n))
    /\ UNCHANGED nextVal

DoDrainTo ==
    /\ Plain("Queue")
    /\ Call("DrainTo", 0, DrainTo(Self))
    /\ UNCHANGED nextVal

\* ToSlice(), the start of a drain: the returned slice and the size are kept
DoToSlice ==
    /\ \E k \in {"Queue", "Deque"} : Callable(k)
    /\ Call("ToSlice", 0, Ok(Self, 0))
    /\ orig' = [slice |-> ToSlice(Self), size |-> size]
    /\ popped' = <<>>
    /\ pc' = IF size = 0 THEN "drained" ELSE "drain"
    /\ UNCHANGED <<nextVal, shuffles>>

\* one PopFront/Dequeue of a drain, which goes on until the container is empty
DoDrain ==
    /\ pc = "drain"
    /\ ~panicked
    /\ LET r == IF kind = "Queue" THEN Dequeue(Self) ELSE PopFront(Self)
       IN  /\ Call(IF kind = "Queue" THEN "Dequeue" ELSE "PopFront", 0, r)
           /\ popped' = Append(popped, r.val)
           /\ pc' = IF r.c.size = 0 THEN "drained" ELSE "drain"
    /\ UNCHANGED <<nextVal, shuffles, orig, law>>

Next ==
    \/ DoPushFront
    \/ DoPushBack
    \/ DoPopFront
    \/ DoPopBack
    \/ DoRotate
    \/ DoDequeClear
    \/ DoDequeSet
    \/ DoDequeReverse
    \/ DoEnqueue
    \/ DoDequeue
    \/ DoQueueClear
    \/ DoQueueReverse
    \/ DoMultiEnqueue
    \/ DoMultiDequeue
    \/ DoDrainTo

Spec == Init /\ [][Next]_vars

\* the calls of Next, and Rotate(n) followed at once by Rotate(-n)
NextRoundTrip ==
    \/ Next
    \/ DoRotateBack

SpecRoundTrip == Init /\ [][NextRoundTrip]_vars

\* the calls of Next, and ToSlice() followed by pops until the container is empty
NextDrain ==
    \/ Next
    \/ DoToSlice
    \/ DoDrain

SpecDrain == Init /\ [][NextDrain]_vars

---------------------------------------------------------------------------
(* The accessors, the alias methods, the caller of FromSliceX and Stack *)

DoDequeFront ==
    /\ Plain("Deque")
    /\ Call("Front", 0, DequeFront(Self))
    /\ UNCHANGED nextVal

DoDequeBack ==
    /\ Plain("Deque")
    /\ Call("Back", 0, DequeBack(Self))
    /\ UNCHANGED nextVal

DoDequeGet ==
    /\ Plain("Deque")
    /\ \E i \in (0 - 1)..size : Call("Get", i, DequeGet(Self, i))
    /\ UNCHANGED nextVal

DoPeekFront ==
    /\ Plain("Deque")
    /\ Call("PeekFront", 0, PeekFront(Self))
    /\ UNCHANGED nextVal

DoPeekBack ==
    /\ Plain("Deque")
    /\ Call("PeekBack", 0, PeekBack(Self))
    /\ UNCHANGED nextVal

DoDequePop ==
    /\ Plain("Deque")
    /\ Call("Pop", 0, DequePop(Self))
    /\ UNCHANGED nextVal

DoQueueFront ==
    /\ Plain("Queue")
    /\ Call("Front", 0, QueueFront(Self))
    /\ UNCHANGED nextVal

DoQueueRear ==
    /\ Plain("Queue")
    /\ Call("Rear", 0, QueueRear(Self))
    /\ UNCHANGED nextVal

DoQueuePeek ==
    /\ Plain("Queue")
    /\ Call("Peek", 0, QueuePeek(Self))
    /\ UNCHANGED nextVal

DoQueuePeekN ==
    /\ Plain("Queue")
    /\ \E n \in (0 - 1)..(size + 1) : Call("PeekN", n, QueuePeekN(Self, n))
    /\ UNCHANGED nextVal

\* whether the items of FromSliceX(slice) are the caller's array: they are
\* the array make() returned, into which the slice was copied
InputShared == FALSE

\* the caller of FromSliceX stores SliceBase, a value that is not in the
\* slice, into the slice it passed; orig holds the caller's slice
DoCallerWrite ==
    /\ ~panicked
    /\ lastOp.name \in {"FromSliceQueue", "FromSliceDeque"}
    /\ pc \in {"run", "caller"}
    /\ LET slice == IF pc = "caller" THEN orig.slice ELSE Input(lastOp.arg)
       IN  \E i \in 0..(Len(slice) - 1) :
              /\ orig' = [slice |-> Put(slice, i, SliceBase), size |-> Len(slice)]
              /\ items' = IF InputShared THEN Put(items, i, SliceBase) ELSE items
    /\ pc' = "caller"
    /\ UNCHANGED <<kind, front, rear, size, panicked, nextVal, lastOp, ret,
                   resized, popped, law, shuffles, other, ops>>

InitStack ==
    /\ \/ Construct("Stack", "NewStack", 0, NewStack)
       \/ \E n \in 0..MaxCapArg :
             Construct("Stack", "NewStackWithCapacity", n, NewStackWithCapacity(n))
       \/ \E n \in 0..MaxSliceLen :
             Construct("Stack", "FromSliceStack", n, FromSliceStack(Input(n)))
    /\ pc = "run"
    /\ law = "none"
    /\ ops = NotCounting

DoStackPush ==
    /\ Plain("Stack") /\ Fresh
    /\ \E newCap \in GrownCapacities(Self, size + 1) :
          Call("Push", nextVal, StackPush(Self, nextVal, newCap))
    /\ nextVal' = nextVal + 1

DoStackPop ==
    /\ Plain("Stack")
    /\ Call("Pop", 0, StackPop(Self))
    /\ UNCHANGED nextVal

DoStackPeek ==
    /\ Plain("Stack")
    /\ Call("Peek", 0, StackPeek(Self))
    /\ UNCHANGED nextVal

DoStackClear ==
    /\ Plain("Stack")
    /\ Call("Clear", 0, StackClear(Self))
    /\ UNCHANGED nextVal

\* MultiPush of the next k fresh values
DoMultiPush ==
    /\ Plain("Stack")
    /\ \E k \in 0..(MaxVal + 1 - nextVal) :
          LET values == [i \in 1..k |-> nextVal + i - 1]
          IN  /\ \E newCap \in GrownCapacities(Self, size + k) :
                    Call("MultiPush", values, MultiPush(Self, values, newCap))
              /\ nextVal' = nextVal + k

DoMultiPop ==
    /\ Plain("Stack")
    /\ \E n \in (0 - 1)..(size + 1) : Call("MultiPop", n, MultiPop(Self, n))
    /\ UNCHANGED nextVal

DoStackPeekN ==
    /\ Plain("Stack")
    /\ \E n \in (0 - 1)..(size + 1) : Call("PeekN", n, StackPeekN(Self, n))
    /\ UNCHANGED nextVal

\* the calls of Next, and the caller's stores into the slice it gave FromSliceX
NextCaller ==
    \/ Next
    \/ DoCallerWrite

SpecCaller == Init /\ [][NextCaller]_vars

InitAPI == Init \/ InitStack

\* the calls of Next, the accessors and aliases, the caller's stores into
\* the slice given to FromSliceX, and the calls on a Stack
NextAPI ==
    \/ Next
    \/ DoDequeFront
    \/ DoDequeBack
    \/ DoDequeGet
    \/ DoPeekFront
    \/ DoPeekBack
    \/ DoDequePop
    \/ DoQueueFront
    \/ DoQueueRear
    \/ DoQueuePeek
    \/ DoQueuePeekN
    \/ DoCallerWrite
    \/ DoStackPush
    \/ DoStackPop
    \/ DoStackPeek
    \/ DoStackClear
    \/ DoMultiPush
    \/ DoMultiPop
    \/ DoStackPeekN

SpecAPI == InitAPI /\ [][NextAPI]_vars

\* a Queue or a Stack, the two types with bulk removal
InitBulk ==
    \/ Init /\ kind = "Queue"
    \/ InitStack

\* every call on a Queue and every call on a Stack
NextBulk ==
    \/ DoEnqueue
    \/ DoDequeue
    \/ DoQueueClear
    \/ DoQueueReverse
    \/ DoMultiEnqueue
    \/ DoMultiDequeue
    \/ DoDrainTo
    \/ DoQueueFront
    \/ DoQueueRear
    \/ DoQueuePeek
    \/ DoQueuePeekN
    \/ DoStackPush
    \/ DoStackPop
    \/ DoStackPeek
    \/ DoStackClear
    \/ DoMultiPush
    \/ DoMultiPop
    \/ DoStackPeekN

SpecBulk == InitBulk /\ [][NextBulk]_vars

---------------------------------------------------------------------------
(* Scripted runs: N pushes through one end followed by N pops, on a        *)
(* container that a constructor returned empty.  law names the access      *)
(* pattern, orig collects the values pushed, popped the values popped.     *)

Laws(k) == IF k = "Queue" THEN {"FIFO"} ELSE {"FIFO", "LIFOBack", "LIFOFront"}

InitLaw ==
    /\ Constructed
    /\ size = 0
    /\ pc = "push"
    /\ law \in Laws(kind)
    /\ ops = NotCounting

\* the push of the access pattern: Enqueue, PushBack or PushFront
LawPushName ==
    CASE kind = "Queue" -> "Enqueue"
      [] law = "LIFOFront" -> "PushFront"
      [] OTHER -> "PushBack"

LawPushCall(v) ==
    CASE kind = "Queue" -> Enqueue(Self, v)
      [] law = "LIFOFront" -> PushFront(Self, v)
      [] OTHER -> PushBack(Self, v)

\* the pop of the access pattern: Dequeue, PopFront or PopBack
LawPopName ==
    CASE kind = "Queue" -> "Dequeue"
      [] law = "LIFOBack" -> "PopBack"
      [] OTHER -> "PopFront"

LawPopCall ==
    CASE kind = "Queue" -> Dequeue(Self)
      [] law = "LIFOBack" -> PopBack(Self)
      [] OTHER -> PopFront(Self)

LawPush ==
    /\ pc = "push"
    /\ ~panicked
    /\ nextVal <= MaxLawN
    /\ Call(LawPushName, nextVal, LawPushCall(nextVal))
    /\ nextVal' = nextVal + 1
    /\ orig' = [slice |-> Append(orig.slice, nextVal), size |-> orig.size + 1]
    /\ UNCHANGED <<pc, popped, law, shuffles>>

\* the pops start once the pushes are over, and there are as many
LawPop ==
    /\ pc \in {"push", "pop"}
    /\ ~panicked
    /\ Len(popped) < orig.size
    /\ LET r == LawPopCall
       IN  /\ Call(LawPopName, 0, r)
           /\ popped' = Append(popped, r.val)
    /\ pc' = "pop"
    /\ UNCHANGED <<nextVal, orig, law, shuffles>>

NextLaw ==
    \/ LawPush
    \/ LawPop

SpecLaw == InitLaw /\ [][NextLaw]_vars

---------------------------------------------------------------------------
(* The queue vocabulary: a Queue driven by Enqueue, Dequeue, Front and     *)
(* Clear, and a Deque driven by its primitives and its alias methods       *)

DoDequeEnqueue ==
    /\ Plain("Deque") /\ Fresh
    /\ Call("Enqueue", nextVal, DequeEnqueue(Self, nextVal))
    /\ nextVal' = nextVal + 1

DoDequeDequeue ==
    /\ Plain("Deque")
    /\ Call("Dequeue", 0, DequeDequeue(Self))
    /\ UNCHANGED nextVal

DoDequePush ==
    /\ Plain("Deque") /\ Fresh
    /\ Call("Push", nextVal, DequePush(Self, nextVal))
    /\ nextVal' = nextVal + 1

NextAlias ==
    \/ DoEnqueue
    \/ DoDequeue
    \/ DoQueueFront
    \/ DoQueueClear
    \/ DoPushFront
    \/ DoPushBack
    \/ DoPopFront
    \/ DoPopBack
    \/ DoDequeFront
    \/ DoDequeBack
    \/ DoDequeClear
    \/ DoDequeEnqueue
    \/ DoDequeDequeue
    \/ DoDequePush
    \/ DoDequePop
    \/ DoPeekFront
    \/ DoPeekBack

SpecAlias == Init /\ [][NextAlias]_vars

---------------------------------------------------------------------------
(* Clone(): the original and its clone, one of which the later calls act   *)
(* on while the other is kept in `other`                                   *)

\* Clone() returned clone r; the later calls are made on the original
\* (acting = 0) or on the clone (acting = 1)
Cloned(r, acting) ==
    /\ other.role = "none"
    /\ items' = IF acting = 0 THEN items ELSE r.c.items
    /\ front' = IF acting = 0 THEN front ELSE r.c.front
    /\ rear' = IF acting = 0 THEN rear ELSE r.c.rear
    /\ size' = IF acting = 0 THEN size ELSE r.c.size
    /\ other' = IF acting = 0
                THEN [c |-> r.c, shared |-> r.shared, role |-> "clone"]
                ELSE [c |-> Self, shared |-> r.shared, role |-> "original"]
    /\ panicked' = r.panic
    /\ lastOp' = [name |-> "Clone", arg |-> acting]
    /\ ret' = [val |-> 0, err |-> FALSE]
    /\ resized' = NoResize
    /\ UNCHANGED <<kind, nextVal, ops>>

DoDequeClone ==
    /\ Plain("Deque")
    /\ \E acting \in {0, 1} : Cloned(DequeClone(Self), acting)

DoQueueClone ==
    /\ Plain("Queue")
    /\ \E acting \in {0, 1} : Cloned(QueueClone(Self), acting)

NextClone ==
    \/ DoDequeClone
    \/ DoQueueClone
    \/ DoPushFront
    \/ DoPushBack
    \/ DoPopFront
    \/ DoPopBack
    \/ DoRotate /\ other.role = "none"
    \/ DoDequeClear
    \/ DoEnqueue
    \/ DoDequeue
    \/ DoQueueClear

SpecClone == Init /\ [][NextClone]_vars

---------------------------------------------------------------------------
(* A LinkedList of values 1..MaxVal, which may repeat *)

\* the slices given to FromSlice
ListInputs ==
    {<<>>} \cup {<<a>> : a \in 1..MaxVal}
           \cup {<<a, b>> : a \in 1..MaxVal, b \in 1..MaxVal}

InitList ==
    /\ \/ Construct("LinkedList", "NewLinkedList", 0, NewLinkedList)
       \/ \E slice \in ListInputs :
             Construct("LinkedList", "FromSlice", slice, FromSlice(slice))
    /\ pc = "run"
    /\ law = "none"
    /\ ops = NotCounting

\* there is room for one more node
CanAllocate == Len(items) < MaxNodes

DoListAppend ==
    /\ Plain("LinkedList") /\ CanAllocate
    /\ \E value \in 1..MaxVal : Call("Append", value, Renamed(ListAppend(Self, value)))
    /\ UNCHANGED nextVal

DoListPrepend ==
    /\ Plain("LinkedList") /\ CanAllocate
    /\ \E value \in 1..MaxVal : Call("Prepend", value, Renamed(ListPrepend(Self, value)))
    /\ UNCHANGED nextVal

DoListInsert ==
    /\ Plain("LinkedList")
    /\ \E index \in (0 - 1)..(size + 1), value \in 1..MaxVal :
          /\ CanAllocate \/ index < 0 \/ index > size
          /\ Call("Insert", <<index, value>>,
               Renamed(ListInsert(Self, index, value)))
    /\ UNCHANGED nextVal

DoListDelete ==
    /\ Plain("LinkedList")
    /\ \E value \in 1..(MaxVal + 1) : Call("Delete", value, Renamed(ListDelete(Self, value)))
    /\ UNCHANGED nextVal

DoListDeleteAt ==
    /\ Plain("LinkedList")
    /\ \E index \in (0 - 1)..size : Call("DeleteAt", index,
                                   Renamed(ListDeleteAt(Self, index)))
    /\ UNCHANGED nextVal

DoListReverse ==
    /\ Plain("LinkedList")
    /\ Call("Reverse", 0, Renamed(ListReverse(Self)))
    /\ UNCHANGED nextVal

DoListClear ==
    /\ Plain("LinkedList")
    /\ Call("Clear", 0, Renamed(ListClear(Self)))
    /\ UNCHANGED nextVal

NextList ==
    \/ DoListAppend
    \/ DoListPrepend
    \/ DoListInsert
    \/ DoListDelete
    \/ DoListDeleteAt
    \/ DoListReverse
    \/ DoListClear

SpecList == InitList /\ [][NextList]_vars

---------------------------------------------------------------------------
(* The accessors of Queue and Deque, and the caller of ToSlice *)

DoSize ==
    /\ \E k \in {"Queue", "Deque"} : Plain(k)
    /\ Call("Size", 0, Ok(Self, Size(Self)))
    /\ UNCHANGED nextVal

DoIsEmpty ==
    /\ \E k \in {"Queue", "Deque"} : Plain(k)
    /\ Call("IsEmpty", 0, Ok(Self, IsEmpty(Self)))
    /\ UNCHANGED nextVal

DoCapacity ==
    /\ \E k \in {"Queue", "Deque"} : Plain(k)
    /\ Call("Capacity", 0, Ok(Self, Capacity(Self)))
    /\ UNCHANGED nextVal

\* Contains of a value pushed, of the first value of a slice, or of a value
\* never stored
DoContains ==
    /\ \E k \in {"Queue", "Deque"} : Plain(k)
    /\ \E value \in {1, SliceBase + 1, SliceBase} :
          Call("Contains", value, Ok(Self, Contains(Self, value)))
    /\ UNCHANGED nextVal

DoString ==
    /\ \E k \in {"Queue", "Deque"} : Plain(k)
    /\ Call("String", 0, Ok(Self, String(Self, kind)))
    /\ UNCHANGED nextVal

\* result := make([]T, size): the slice ToSlice returns has an array of
\* its own, it is no part of items
ToSliceSharesItems == TRUE

ToSliceShared == FALSE

\* the caller of ToSlice stores SliceBase, a value that is not in the
\* container, into the slice it was given; orig holds that slice
DoResultWrite ==
    /\ ~panicked
    /\ lastOp.name = "ToSlice"
    /\ pc \in {"drain", "drained", "caller"}
    /\ \E i \in 0..(Len(orig.slice) - 1) :
          /\ orig' = [orig EXCEPT !.slice = Put(orig.slice, i, SliceBase)]
          /\ items' = IF ToSliceShared
                      THEN Put(items, GoMod(front + i, Len(items)), SliceBase)
                      ELSE items
    /\ pc' = "caller"
    /\ UNCHANGED <<kind, front, rear, size, panicked, nextVal, lastOp, ret,
                   resized, popped, law, shuffles, other, ops>>

\* the accessors are called between pushes, pops and Clear, on containers
\* of every constructor and on a deque rotated as it was built from a slice
NextRead ==
    \/ DoPushFront
    \/ DoPushBack
    \/ DoPopFront
    \/ DoPopBack
    \/ DoRotate /\ lastOp.name = "FromSliceDeque"
    \/ DoDequeClear
    \/ DoEnqueue
    \/ DoDequeue
    \/ DoQueueClear
    \/ DoDequeFront
    \/ DoDequeBack
    \/ DoDequeGet
    \/ DoPeekFront
    \/ DoPeekBack
    \/ DoQueueFront
    \/ DoQueueRear
    \/ DoQueuePeek
    \/ DoSize
    \/ DoIsEmpty
    \/ DoCapacity
    \/ DoContains
    \/ DoString
    \/ DoToSlice
    \/ DoResultWrite

SpecRead == Init /\ [][NextRead]_vars

---------------------------------------------------------------------------
(* The cost of resize(): single pushes and pops on a container made by     *)
(* NewQueue() or NewDeque(), counted from one resize() to the next         *)

InitCost ==
    /\ \/ Construct("Deque", "NewDeque", 0, NewDeque)
       \/ Construct("Queue", "NewQueue", 0, NewQueue)
    /\ pc = "run"
    /\ law = "none"
    /\ ops = 0

\* one push of the value 1, at either end of a deque
DoCostPush ==
    /\ size < MaxSize
    /\ \/ Plain("Deque") /\ Call("PushFront", 1, PushFront(Self, 1))
       \/ Plain("Deque") /\ Call("PushBack", 1, PushBack(Self, 1))
       \/ Plain("Queue") /\ Call("Enqueue", 1, Enqueue(Self, 1))
    /\ UNCHANGED nextVal

\* one pop, at either end of a deque
DoCostPop ==
    /\ \/ Plain("Deque") /\ Call("PopFront", 0, PopFront(Self))
       \/ Plain("Deque") /\ Call("PopBack", 0, PopBack(Self))
       \/ Plain("Queue") /\ Call("Dequeue", 0, Dequeue(Self))
    /\ UNCHANGED nextVal

NextCost ==
    \/ DoCostPush
    \/ DoCostPop

SpecCost == InitCost /\ [][NextCost]_vars


\* the container after the step
SelfNext == Container(items', front', rear', size')

\* n reduced into 0..m-1
Norm(n, m) == ((n % m) + m) % m

\* the sequence s rotated right by k positions, 0 <= k < Len(s)
RotRight(s, k) == [i \in 1..Len(s) |-> s[Norm(i - 1 - k, Len(s)) + 1]]

Reversed(s) == [i \in 1..Len(s) |-> s[Len(s) + 1 - i]]

IsPrefix(p, s) == Len(p) <= Len(s) /\ p = SubSeq(s, 1, Len(p))

\* the step is a call of one of the named methods
Called(names) == lastOp'.name \in names

---------------------------------------------------------------------------
(* C1: in every state of a Queue or Deque, after any constructor and any   *)
(* sequence of calls, 0 <= size <= capacity (len(items)).                  *)
C1_SizeWithinCapacity == 0 <= size /\ size <= Len(items)

\* a PushBack that grew the buffer and left it full again
C1_Witness ==
    /\ lastOp.name = "PushBack"
    /\ resized # NoResize
    /\ size = Len(items)

(* C2: in every reachable state of a Queue or Deque the stored rear field  *)
(* equals (front + size) mod capacity.                                     *)
C2_RearAgrees == rear = (front + size) % Len(items)

(* C3: Rotate(n) leaves size and capacity unchanged; with size > 1 the     *)
(* logical order afterwards is the previous one rotated right by           *)
(* n mod size positions, and with size <= 1 nothing changes.               *)
C3_RotateRotatesRight ==
    [][Called({"Rotate"}) =>
        /\ size' = size
        /\ Len(items') = Len(items)
        /\ IF size > 1
           THEN DequeToSlice(SelfNext)
                   = RotRight(DequeToSlice(Self), Norm(lastOp'.arg, size))
           ELSE SelfNext = Self]_vars

(* C4: Rotate(k) followed by Rotate(-k) restores the logical order that    *)
(* ToSlice gave before the two calls.                                      *)
C4_RotateRoundTrip == pc = "back" => DequeToSlice(Self) = orig.slice

(* C5: PushBack/Enqueue(v) appends v to the logical order: afterwards      *)
(* ToSlice is the previous ToSlice with v appended, v sits at the tail     *)
(* index of the (possibly grown) buffer, and the call does not fail.       *)
C5_PushBackAppends ==
    [][Called({"PushBack", "Enqueue"}) =>
        /\ ~panicked'
        /\ ToSlice(SelfNext) = Append(ToSlice(Self), lastOp'.arg)
        /\ At(items', (front' + size' - 1) % Len(items')) = lastOp'.arg]_vars

(* C6: with size > 0, PopBack returns the last element of the logical      *)
(* order and afterwards ToSlice is the previous ToSlice without it.        *)
C6_PopBackTakesLast ==
    [][Called({"PopBack"}) /\ size > 0 =>
        /\ ~ret'.err
        /\ ret'.val = DequeToSlice(Self)[size]
        /\ DequeToSlice(SelfNext) = SubSeq(DequeToSlice(Self), 1, size - 1)]_vars

(* C7: FIFO law: on a Queue (Enqueue/Dequeue) or a Deque (PushBack/        *)
(* PopFront) that a constructor returned empty, N pushes followed by N     *)
(* pops return the pushed values in insertion order; no call fails.        *)
C7_FIFO ==
    law = "FIFO" =>
        /\ ~panicked
        /\ pc = "pop" => ~ret.err /\ IsPrefix(popped, orig.slice)

\* a queue grown from capacity 4 to 16 and shrunk back to 4 by the pops
C7_Witness ==
    /\ law = "FIFO" /\ kind = "Queue"
    /\ orig.size >= 9
    /\ popped = orig.slice
    /\ Len(items) = 4

(* C8: LIFO law: on a Deque that a constructor returned empty, N pushes    *)
(* through one end followed by N pops through the same end return the      *)
(* pushed values in reverse insertion order; no call fails.                *)
C8_LIFO ==
    law \in {"LIFOBack", "LIFOFront"} =>
        /\ ~panicked
        /\ pc = "pop" => ~ret.err /\ IsPrefix(popped, Reversed(orig.slice))

\* nine values pushed and popped through the front, across growth and shrink
C8_Witness ==
    /\ law = "LIFOFront"
    /\ orig.size >= 9
    /\ popped = Reversed(orig.slice)
    /\ Len(items) = 4

(* C9: round trip: the values that repeated PopFront/Dequeue calls return  *)
(* until the container is empty are ToSlice() of the state they started    *)
(* from, and there are exactly size of them.                               *)
C9_DrainIsToSlice ==
    /\ pc = "drain" => popped \o ToSlice(Self) = orig.slice
    /\ pc = "drained" => popped = orig.slice /\ Len(popped) = orig.size

\* five elements in a buffer of 8 drained, the buffer shrinking on the way
C9_Witness ==
    /\ pc = "drained"
    /\ orig.size = 5
    /\ Len(popped) = 5
    /\ Len(items) = 4

(* C10: whenever resize() runs, the logical order of the stored elements   *)
(* is the same immediately before and after it, and front becomes 0.       *)
C10_ResizeTransparent ==
    \A i \in 1..Len(resized) :
        /\ resized[i].after = resized[i].before
        /\ resized[i].front = 0

\* a shrink of a buffer whose front was not 0, with two elements to copy
C10_Witness ==
    \E i \in 1..Len(resized) :
        /\ resized[i].newCap < resized[i].oldCap
        /\ resized[i].oldFront > 0
        /\ Len(resized[i].before) >= 2

\* n is 4 * 2^k for some k >= 0
RECURSIVE FourDoubled(_)
FourDoubled(n) == n = 4 \/ (n > 4 /\ n % 2 = 0 /\ FourDoubled(n \div 2))

(* C11, as stated: after any constructor and any sequence of calls the     *)
(* capacity of a Queue or Deque is of the form 4 * 2^k, k >= 0.            *)
C11_CapacityFourDoubled == FourDoubled(Len(items))

(* C11, amended: the capacity is always a positive integer; every          *)
(* resize() run exactly doubles it or halves it (integer division), and    *)
(* nothing else changes it; so a capacity of the form 4 * 2^k stays of     *)
(* that form through every call.                                           *)
C11_CapacityDoublesOrHalves ==
    [][/\ Len(items) >= 1 /\ Len(items') >= 1
       /\ \A i \in 1..Len(resized') :
             /\ resized'[i].newCap \in {resized'[i].oldCap * 2,
                                        resized'[i].oldCap \div 2}
             /\ resized'[i].oldCap
                   = IF i = 1 THEN Len(items) ELSE resized'[i - 1].newCap
       /\ Len(items') = IF resized' = NoResize THEN Len(items)
                         ELSE resized'[Len(resized')].newCap
       /\ FourDoubled(Len(items)) => FourDoubled(Len(items'))]_vars

\* a buffer of capacity 5 halved to capacity 2
C11_Witness ==
    \E i \in 1..Len(resized) :
        resized[i].oldCap = 5 /\ resized[i].newCap = 2

\* the larger of two integers
Max(a, b) == IF a >= b THEN a ELSE b

(* C12: NewQueueWithCapacity(n) and NewDequeWithCapacity(n) return an      *)
(* empty container (size 0, front 0) whose capacity is max(n, 4) when      *)
(* n >= 1 and 4 when n < 1.                                                *)
C12_WithCapacity ==
    lastOp.name \in {"NewQueueWithCapacity", "NewDequeWithCapacity"} =>
        /\ size = 0 /\ front = 0
        /\ Len(items) = IF lastOp.arg >= 1 THEN Max(lastOp.arg, 4) ELSE 4

ReadsOne == {"Front", "Back", "Rear", "PopFront", "Dequeue", "PopBack",
             "Peek", "PeekFront", "PeekBack", "Pop"}

(* C14: on a Queue or Deque with size 0, Front, Back/Rear, PopFront/       *)
(* Dequeue, PopBack and the aliases Peek, PeekFront, PeekBack and Pop      *)
(* return an error with the zero value and leave items, front, rear, size  *)
(* and the capacity unchanged.                                             *)
C14_EmptyFails ==
    [][Called(ReadsOne) /\ kind \in {"Queue", "Deque"} /\ size = 0 =>
        /\ ret'.err /\ ret'.val = 0
        /\ ~panicked'
        /\ SelfNext = Self]_vars

\* PopBack failing on a deque that PopFront calls emptied
C14_Witness ==
    /\ lastOp.name = "PopBack" /\ ret.err
    /\ size = 0 /\ front # 0

(* C15: Queue.MultiDequeue(n) and Stack.MultiPop(n) with n < 0 or          *)
(* n > size return an error and leave the container as it was: same size,  *)
(* same capacity, same elements in the same order.                         *)
C15_BulkBounds ==
    [][/\ Called({"MultiDequeue", "MultiPop"})
       /\ (lastOp'.arg < 0 \/ lastOp'.arg > size)
       => /\ ret'.err /\ ret'.val = <<>>
          /\ SelfNext = Self]_vars

\* MultiDequeue(3) failing on a queue of two elements
C15_Witness ==
    /\ lastOp.name = "MultiDequeue" /\ lastOp.arg = 3
    /\ ret.err /\ size = 2

\* the queue after n successive Dequeue calls
RECURSIVE Dequeues(_, _)
Dequeues(q, n) == IF n = 0 THEN q ELSE Dequeues(Dequeue(q).c, n - 1)

(* C16: for 0 <= n <= size, Queue.MultiDequeue(n) returns the first n      *)
(* elements of the logical order, front first, leaves the others in their  *)
(* order, and ends in the state (items, front, rear, size, capacity) that  *)
(* n successive Dequeue calls end in, shrinks included.                    *)
C16_MultiDequeue ==
    [][/\ Called({"MultiDequeue"})
       /\ 0 <= lastOp'.arg /\ lastOp'.arg <= size
       => /\ ~ret'.err /\ ~panicked'
          /\ ret'.val = SubSeq(QueueToSlice(Self), 1, lastOp'.arg)
          /\ QueueToSlice(SelfNext)
                = SubSeq(QueueToSlice(Self), lastOp'.arg + 1, size)
          /\ SelfNext = Dequeues(Self, lastOp'.arg)]_vars

\* MultiDequeue(4) on five elements in a buffer of 8, which shrinks after
\* the third removal
C16_Witness ==
    /\ lastOp.name = "MultiDequeue" /\ lastOp.arg = 4
    /\ Len(ret.val) = 4
    /\ resized # NoResize
    /\ size = 1

(* C17: Queue.PeekN(n) and Stack.PeekN(n) fail exactly when n < 0 or       *)
(* n > size; otherwise they return the elements, in the order, that        *)
(* MultiDequeue(n) (MultiPop(n) for a Stack) would return in that state;   *)
(* in every case the container is left as it was.                          *)
C17_PeekN ==
    [][Called({"PeekN"}) =>
        LET n == lastOp'.arg
            bulk == IF kind = "Queue" THEN MultiDequeue(Self, n)
                    ELSE MultiPop(Self, n)
        IN  /\ ret'.err <=> (n < 0 \/ n > size)
            /\ ret'.err = bulk.err
            /\ ret'.val = bulk.val
            /\ SelfNext = Self]_vars

\* PeekN on a queue whose first n elements wrap around the end of the buffer
C17_Witness ==
    /\ lastOp.name = "PeekN" /\ kind = "Queue"
    /\ ~ret.err
    /\ front > 0
    /\ front + lastOp.arg > Len(items)

(* C18: an insertion (PushBack, PushFront, Enqueue) changes the capacity   *)
(* if and only if size = capacity just before it, the new capacity is      *)
(* then twice the old one, and every insertion increases size by 1.        *)
C18_Growth ==
    [][Called({"PushBack", "PushFront", "Enqueue"}) =>
        /\ size' = size + 1
        /\ (Len(items') # Len(items)) <=> (size = Len(items))
        /\ size = Len(items) => Len(items') = 2 * Len(items)]_vars

(* C19: a successful removal (PopFront, PopBack, Dequeue) changes the      *)
(* capacity if and only if, with size decremented, size > 0 and            *)
(* size = capacity / 4 (integer division) and capacity > 4; the new        *)
(* capacity is then capacity / 2 and at least size; otherwise the          *)
(* capacity is unchanged.                                                  *)
C19_Shrink ==
    [][Called({"PopFront", "PopBack", "Dequeue"}) /\ size > 0 =>
        /\ ~ret'.err
        /\ size' = size - 1
        /\ IF size' > 0 /\ size' = Len(items) \div 4 /\ Len(items) > 4
           THEN /\ Len(items') = Len(items) \div 2
                /\ Len(items') # Len(items)
                /\ Len(items') >= size'
           ELSE Len(items') = Len(items)]_vars

\* a PopBack that left two elements in a buffer of 8 and halved it
C19_Witness ==
    /\ lastOp.name = "PopBack"
    /\ size = 2 /\ Len(items) = 4
    /\ Len(resized) = 1 /\ resized[1].oldCap = 8

(* C20: on a Deque, Get(i) with 0 <= i < size returns element i of         *)
(* ToSlice() and changes nothing; Set(i, v) with 0 <= i < size changes     *)
(* logical position i to v and leaves every other element, size, front     *)
(* and the capacity unchanged; with i < 0 or i >= size both return an      *)
(* error and leave the state unchanged.                                    *)
C20_GetSet ==
    [][Called({"Get", "Set"}) =>
        LET i == lastOp'.arg
            before == DequeToSlice(Self)
        IN  IF i < 0 \/ i >= size
            THEN ret'.err /\ SelfNext = Self
            ELSE /\ ~ret'.err
                 /\ IF lastOp'.name = "Get"
                    THEN ret'.val = before[i + 1] /\ SelfNext = Self
                    ELSE /\ DequeToSlice(SelfNext)
                              = [before EXCEPT ![i + 1] = nextVal]
                         /\ size' = size /\ front' = front
                         /\ Len(items') = Len(items)]_vars

\* Set on a position that lies past the wrap of the buffer
C20_Witness ==
    /\ lastOp.name = "Set" /\ ~ret.err
    /\ front + lastOp.arg >= Len(items)
    /\ lastOp.arg >= 1

(* C21: in every reachable Deque state, PushFront(v) makes ToSlice equal   *)
(* to v followed by the previous ToSlice: front is decremented with        *)
(* wraparound, after the growth of a full buffer, and no element that was  *)
(* there is overwritten.                                                   *)
C21_PushFrontPrepends ==
    [][Called({"PushFront"}) =>
        /\ DequeToSlice(SelfNext) = <<lastOp'.arg>> \o DequeToSlice(Self)
        /\ size' = size + 1
        /\ front' = ((IF size = Len(items) THEN 0 ELSE front) - 1 + Len(items'))
                       % Len(items')
        /\ ~panicked']_vars

\* PushFront into a full buffer whose front was not 0: the buffer grows
\* and the value goes to its last slot
C21_Witness ==
    /\ lastOp.name = "PushFront"
    /\ Len(resized) = 1 /\ resized[1].oldFront > 0
    /\ front = Len(items) - 1

(* C22: on a Queue or Deque with size > 0, PopFront/Dequeue returns the    *)
(* first element of ToSlice(); afterwards ToSlice is the previous ToSlice  *)
(* without its first element and size is one less.                         *)
C22_PopFrontTakesFirst ==
    [][Called({"PopFront", "Dequeue"}) /\ size > 0 =>
        /\ ~ret'.err /\ ~panicked'
        /\ ret'.val = ToSlice(Self)[1]
        /\ ToSlice(SelfNext) = Tail(ToSlice(Self))
        /\ size' = size - 1]_vars

\* the third Dequeue of five elements in a buffer of 8, which halves it
C22_Witness ==
    /\ lastOp.name = "Dequeue"
    /\ resized # NoResize
    /\ ret.val = SliceBase + 3

(* C24: in every reachable state of a Queue or Deque, wrapped buffers      *)
(* with front > 0 included, Reverse() makes ToSlice the reverse of the     *)
(* previous ToSlice and leaves size and capacity unchanged.                *)
C24_Reverse ==
    [][Called({"Reverse"}) =>
        /\ ToSlice(SelfNext) = Reversed(ToSlice(Self))
        /\ size' = size
        /\ Len(items') = Len(items)
        /\ ~panicked']_vars

\* Reverse of a deque of three or more elements that wrap around the end
\* of the buffer
C24_Witness ==
    /\ lastOp.name = "Reverse" /\ kind = "Deque"
    /\ size >= 3
    /\ front + size > Len(items)

(* C26: Clear() on a Queue or Deque results in size 0, front 0, rear 0,    *)
(* an unchanged capacity and every physical slot holding the zero value,   *)
(* which is the state of a freshly created container of that capacity.     *)
C26_ClearIsFresh ==
    [][Called({"Clear"}) =>
        /\ size' = 0 /\ front' = 0 /\ rear' = 0
        /\ Len(items') = Len(items)
        /\ items' = Make(Len(items))
        /\ SelfNext = IF kind = "Queue" THEN NewQueueWithCapacity(Len(items))
                      ELSE NewDequeWithCapacity(Len(items))]_vars

(* C27: Queue.DrainTo() returns the ToSlice() of the state before the      *)
(* call, front to rear, and leaves the queue empty (size 0) with the       *)
(* capacity unchanged.                                                     *)
C27_DrainTo ==
    [][Called({"DrainTo"}) =>
        /\ ~ret'.err
        /\ ret'.val = QueueToSlice(Self)
        /\ size' = 0
        /\ QueueToSlice(SelfNext) = <<>>
        /\ Len(items') = Len(items)]_vars

\* DrainTo of five elements in a buffer of 8
C27_Witness ==
    /\ lastOp.name = "DrainTo"
    /\ Len(ret.val) = 5
    /\ Len(items) = 8

\* n successive Pop calls: the stack left and the values returned, in order
RECURSIVE Pops(_, _)
Pops(s, n) ==
    IF n = 0 THEN [c |-> s, vals |-> <<>>]
    ELSE LET r == StackPop(s)
             rest == Pops(r.c, n - 1)
         IN  [c |-> rest.c, vals |-> <<r.val>> \o rest.vals]

\* the stacks successive Push calls of the values can leave, one for each
\* capacity append may choose
RECURSIVE Pushes(_, _)
Pushes(s, values) ==
    IF values = <<>> THEN {s}
    ELSE UNION {Pushes(StackPush(s, Head(values), newCap).c, Tail(values)) :
                  newCap \in GrownCapacities(s, s.size + 1)}

Matches(r) ==
    /\ SelfNext = r.c
    /\ ret' = [val |-> r.val, err |-> r.err]
    /\ panicked' = r.panic

\* a Queue constructor gives the front, rear, size and buffer of the Deque
\* constructor with the same arguments
ConstructorsAgree ==
    /\ lastOp.name = "NewQueue" => Self = NewDeque
    /\ lastOp.name = "NewQueueWithCapacity" =>
          Self = NewDequeWithCapacity(lastOp.arg)
    /\ lastOp.name = "FromSliceQueue" => Self = FromSliceDeque(Input(lastOp.arg))

(* C25: the queue vocabulary is an alias layer. A Queue constructor gives  *)
(* the state of the Deque constructor with the same arguments, and from    *)
(* any state a Queue reaches by Enqueue/Dequeue/Front/Clear each of these  *)
(* calls returns the value and error, and leaves the front, rear, size,    *)
(* capacity and contents, that PushBack/PopFront/Front/Clear of a Deque    *)
(* in that state does, so the two agree at every step; and Deque's         *)
(* Enqueue/Dequeue/Push/Pop/PeekFront/PeekBack act as PushBack/PopFront/   *)
(* PushBack/PopBack/Front/Back.                                            *)
C25_AliasLayer ==
    /\ []ConstructorsAgree
    /\ [][/\ (kind = "Queue" =>
               /\ (Called({"Enqueue"}) => Matches(PushBack(Self, lastOp'.arg)))
               /\ (Called({"Dequeue"}) => Matches(PopFront(Self)))
               /\ (Called({"Front"}) => Matches(DequeFront(Self)))
               /\ (Called({"Clear"}) => Matches(DequeClear(Self))))
          /\ (kind = "Deque" =>
               /\ (Called({"Enqueue", "Push"}) =>
                      Matches(PushBack(Self, lastOp'.arg)))
               /\ (Called({"Dequeue"}) => Matches(PopFront(Self)))
               /\ (Called({"Pop"}) => Matches(PopBack(Self)))
               /\ (Called({"PeekFront"}) => Matches(DequeFront(Self)))
               /\ (Called({"PeekBack"}) => Matches(DequeBack(Self))))]_vars

\* a Dequeue of a Queue that halves the buffer of 8 to 4 with two elements left
C25_Witness ==
    /\ kind = "Queue"
    /\ lastOp.name = "Dequeue" /\ ~ret.err
    /\ Len(resized) = 1
    /\ Len(items) = 4 /\ size = 2

(* C23: Clone() of a Queue or Deque in any reachable state returns a       *)
(* container whose ToSlice equals the original's, and the two are          *)
(* independent: every later call on the clone leaves the size, capacity    *)
(* and ToSlice of the original unchanged, and every later call on the      *)
(* original leaves those of the clone unchanged.                           *)
C23_Clone ==
    [][/\ (Called({"Clone"}) =>
              /\ ~panicked'
              /\ ToSlice(SelfNext) = ToSlice(Self)
              /\ ToSlice(other'.c) = ToSlice(Self))
       /\ (other.role # "none" =>
              /\ other'.role = other.role
              /\ other'.c.size = other.c.size
              /\ Len(other'.c.items) = Len(other.c.items)
              /\ ToSlice(other'.c) = ToSlice(other.c))]_vars

\* the clone of a deque of four whose front is not 0 has been popped down
\* to one element; the original still has its four
C23_Witness ==
    /\ kind = "Deque" /\ other.role = "original"
    /\ lastOp.name \in {"PopFront", "PopBack"}
    /\ other.c.size = 4 /\ other.c.front > 0
    /\ size = 1

\* the sequence s with v put in at 0-based position index
InsertedAt(s, index, v) ==
    SubSeq(s, 1, index) \o <<v>> \o SubSeq(s, index + 1, Len(s))

\* the sequence s without the element at 0-based position index
RemovedAt(s, index) == SubSeq(s, 1, index) \o SubSeq(s, index + 2, Len(s))

\* the 0-based position of the first v in s, which holds one
FirstIndex(s, v) ==
    (CHOOSE i \in 1..Len(s) : s[i] = v /\ \A j \in 1..(i - 1) : s[j] # v) - 1

(* C29: LinkedList.Insert(index, value) with 0 <= index <= size makes      *)
(* ToSlice the previous ToSlice with value inserted at position index      *)
(* (index 0 prepends, index = size appends) and increases size by 1; with  *)
(* index < 0 or index > size it returns an error and leaves the list       *)
(* unchanged.                                                              *)
C29_Insert ==
    [][Called({"Insert"}) =>
        LET index == lastOp'.arg[1]
            value == lastOp'.arg[2]
            before == ListToSlice(Self)
        IN  /\ ~panicked'
            /\ IF 0 <= index /\ index <= size
               THEN /\ ~ret'.err
                    /\ ListToSlice(SelfNext) = InsertedAt(before, index, value)
                    /\ index = 0 => ListToSlice(SelfNext) = <<value>> \o before
                    /\ index = size => ListToSlice(SelfNext) = Append(before, value)
                    /\ size' = size + 1
               ELSE /\ ret'.err
                    /\ SelfNext = Self]_vars

\* an Insert between the first and the last of three elements or more
C29_Witness ==
    /\ kind = "LinkedList"
    /\ lastOp.name = "Insert" /\ ~ret.err
    /\ lastOp.arg[1] = 1
    /\ size = 4
    /\ ListToSlice(Self)[2] = lastOp.arg[2]

(* C30: LinkedList.Delete(value) removes the first occurrence of value,    *)
(* the other elements keeping their order and size going down by 1, and    *)
(* returns true; when value is absent it returns false and leaves the list *)
(* unchanged.  DeleteAt(index) with 0 <= index < size removes the element  *)
(* at that index; with an index out of range it returns an error and       *)
(* leaves the list unchanged.                                              *)
C30_Delete ==
    [][/\ (Called({"Delete"}) =>
              LET value == lastOp'.arg
                  before == ListToSlice(Self)
              IN  /\ ~panicked'
                  /\ IF \E i \in 1..Len(before) : before[i] = value
                     THEN /\ ret'.val = TRUE
                          /\ ListToSlice(SelfNext) =
                                RemovedAt(before, FirstIndex(before, value))
                          /\ size' = size - 1
                     ELSE /\ ret'.val = FALSE
                          /\ SelfNext = Self)
       /\ (Called({"DeleteAt"}) =>
              LET index == lastOp'.arg
                  before == ListToSlice(Self)
              IN  /\ ~panicked'
                  /\ IF 0 <= index /\ index < size
                     THEN /\ ~ret'.err
                          /\ ListToSlice(SelfNext) = RemovedAt(before, index)
                          /\ size' = size - 1
                     ELSE /\ ret'.err
                          /\ SelfNext = Self)]_vars

\* Delete(1) of a list that held 2, 1, 2, 1: the first 1 is gone, the
\* second is still there
C30_Witness ==
    /\ kind = "LinkedList"
    /\ lastOp.name = "Delete" /\ lastOp.arg = 1
    /\ ret.val = TRUE
    /\ ListToSlice(Self) = <<2, 2, 1>>

(* C32: in every reachable state of a Queue or Deque, states with size 0   *)
(* and states reached through Rotate, PushFront and resize included,       *)
(* front is a valid array index: 0 <= front < capacity.                    *)
C32_FrontIsIndex == 0 <= front /\ front < Len(items)

\* an empty deque whose front is the last slot of the buffer
C32_Witness ==
    /\ kind = "Deque"
    /\ size = 0
    /\ lastOp.name = "PopBack" /\ ~ret.err
    /\ front = Len(items) - 1

C34_EmptyingKeepsCapacity ==
    [][size = 1 /\ size' = 0 =>
        /\ Len(items') = Len(items)
        /\ resized' = NoResize]_vars

\* the last element of a buffer of 8 has been dequeued
C34_Witness ==
    /\ lastOp.name \in {"PopFront", "PopBack", "Dequeue"} /\ ~ret.err
    /\ size = 0
    /\ Len(items) = 8

\* physical slot i (from 0) lies in the arc of size slots that starts at front
InArc(i) == Norm(i - front, Len(items)) < size

(* C35: in every reachable state of a Queue or Deque the stored elements   *)
(* occupy exactly the arc of size physical slots starting at front, with   *)
(* at most one wraparound, and every slot outside that arc holds the zero  *)
(* value: no operation, Deque.Rotate included, leaves a stale value there. *)
C35_ArcOnly ==
    \A i \in 0..(Len(items) - 1) :
        IF InArc(i) THEN At(items, i) # 0 ELSE At(items, i) = 0

(* C36: in every reachable Deque state with size > 0, Back() and           *)
(* PeekBack() return what Get(size - 1) returns and Front() and            *)
(* PeekFront() what Get(0) returns; for a Queue, Rear() returns the last   *)
(* element of ToSlice() and Front() the first.                             *)
C36_EndsAgree ==
    size > 0 =>
        IF kind = "Deque"
        THEN /\ ~DequeGet(Self, size - 1).err /\ ~DequeGet(Self, 0).err
             /\ DequeBack(Self) = DequeGet(Self, size - 1)
             /\ PeekBack(Self) = DequeGet(Self, size - 1)
             /\ DequeFront(Self) = DequeGet(Self, 0)
             /\ PeekFront(Self) = DequeGet(Self, 0)
        ELSE /\ ~QueueRear(Self).err /\ ~QueueFront(Self).err
             /\ QueueRear(Self).val = QueueToSlice(Self)[size]
             /\ QueueFront(Self).val = QueueToSlice(Self)[1]

\* the nodes reachable from head, in order
FromHead == Reached(items, front, <<>>)

(* C38: after any sequence of Append, Prepend, Insert, Delete, DeleteAt,   *)
(* Reverse and Clear on a LinkedList, size is the number of nodes          *)
(* reachable from head; head is nil iff tail is nil iff size is 0; and     *)
(* when the list is not empty tail is the last node reachable from head    *)
(* and tail.Next is nil, so Tail() returns the last element of ToSlice()   *)
(* and Head() the first.                                                   *)
C38_ListStructure ==
    /\ ~panicked
    /\ size = Len(FromHead)
    /\ (front = NilNode) = (rear = NilNode)
    /\ (front = NilNode) = (size = 0)
    /\ ListHead(Self).err = (size = 0)
    /\ ListTail(Self).err = (size = 0)
    /\ size > 0 =>
          /\ rear = FromHead[Len(FromHead)]
          /\ items[rear].Next = NilNode
          /\ Len(ListToSlice(Self)) = size
          /\ ListTail(Self).val = ListToSlice(Self)[size]
          /\ ListHead(Self).val = ListToSlice(Self)[1]

\* a list of three or more that has just been reversed, whose first and
\* last elements differ
C38_Witness ==
    /\ kind = "LinkedList"
    /\ lastOp.name = "Reverse"
    /\ size >= 3
    /\ ListHead(Self).val # ListTail(Self).val

\* the methods of Queue and Deque that only read
Accessors == {"Front", "Back", "Rear", "PeekFront", "PeekBack", "Peek", "Get",
              "Size", "IsEmpty", "Capacity", "Contains", "ToSlice", "String"}

(* C37: Front, Back/Rear, PeekFront, PeekBack, Peek, Get, Size, IsEmpty,   *)
(* Capacity, Contains, ToSlice and String of Queue and Deque leave items,  *)
(* front, rear and size unchanged in every reachable state, and the slice  *)
(* ToSlice returns is a copy: the stores the caller makes into it          *)
(* afterwards do not change the container.                                 *)
C37_AccessorsFrame ==
    [][Called(Accessors) =>
        /\ SelfNext = Self
        /\ ~panicked'
        /\ (lastOp'.name = "ToSlice" /\ pc' \in {"drain", "drained"} =>
               orig'.slice = ToSlice(Self))]_vars

\* the caller of ToSlice has overwritten the first element of the slice it
\* got from a deque whose front is not 0; the deque still holds its own
C37_Witness ==
    /\ kind = "Deque"
    /\ lastOp.name = "ToSlice" /\ pc = "caller"
    /\ size >= 2 /\ front > 0
    /\ orig.slice[1] = SliceBase
    /\ At(items, front) # SliceBase

\* the number of elements the resize() of the last call copied
Copied(log) == Len(log[1].before)

(* C31: on a Queue or Deque made by NewQueue()/NewDeque() and used by      *)
(* single pushes and pops, every resize() copies at most 2 times as many   *)
(* elements as pushes and pops were made since the resize() before it, or  *)
(* since creation, the call that runs the resize() counted; the copies of  *)
(* N operations then sum to at most 2 N.                                   *)
C31_ResizeCost ==
    [][resized' # NoResize => Copied(resized') <= 2 * (ops + 1)]_vars

\* the last call ran a resize() that copied 16 elements: a buffer of 16
\* slots, full, grew to 32
C31_Witness ==
    /\ resized # NoResize
    /\ Copied(resized) = 16
    /\ Len(items) = 32
    /\ ops = 0

====
